---- MODULE Spec2Model ----
(***************************************************************************)
(* A model of pr-merge-announcer/scripts/post_to_slack.py: one run of      *)
(* main(), from the parsed command line to the exit of the process.        *)
(*                                                                         *)
(* Text.  A Python str is modelled as a sequence of symbols.  A symbol is  *)
(* one character ("/", ":", "LF" for the newline, "BSLASH" for the         *)
(* backslash, "DQ" for the double quote, "BQ" for the backquote, "U+1F4C2" *)
(* for a non-ASCII code point) or a run of ordinary ASCII characters that  *)
(* no operation of the program looks into ("github.com", "pull").          *)
(*                                                                         *)
(* Optional values.  A value that may be None is a sequence of length 0    *)
(* (None) or 1 (the value).                                                *)
(***************************************************************************)
EXTENDS Integers, Sequences, FiniteSets, TLC

VARIABLES
    args,        \* argparse namespace: pr_number, summary, repo, webhook_url, dry_run
    environ,     \* os.environ.get("SLACK_WEBHOOK_URL"): None or a str
    pc,          \* position of main(): "fetch", "format", "fork", "resolve", "publish", "done"
    gh,          \* None, or the completed subprocess: cmd, returncode, stdout, stderr
    pr,          \* None, or the dict fetch_pr returned
    message,     \* None, or the str format_message returned
    webhook_url, \* None, or the resolved webhook URL (main's local webhook_url)
    transport,   \* None, or what urlopen did with the request
    post,        \* None, or how the call of post_to_slack ended
    http,        \* the requests handed to urlopen, in order
    out,         \* standard output: the strings printed, in order
    err,         \* standard error: the strings printed, in order
    exitCode,    \* None while running, then the exit status of the process
    envReads,    \* history: the value of stages at each read of SLACK_WEBHOOK_URL
    stages       \* history: the stages entered so far, in order

vars == <<args, environ, pc, gh, pr, message, webhook_url, transport, post,
          http, out, err, exitCode, envReads, stages>>

----------------------------------------------------------------------------
(* Bounds of the model *)

MaxPrNumber == 2
MaxSummaryLen == 2

----------------------------------------------------------------------------
(* Python values *)

None == <<>>
Some(x) == <<x>>
IsNone(o) == Len(o) = 0

\* truth value of an Optional[str]: None and "" are falsy
Truthy(o) == Len(o) = 1 /\ Len(o[1]) > 0

\* str(n), and {n} in an f-string, for an int n
Str(n) == <<ToString(n)>>

Whitespace == {"LF", " "}

RECURSIVE LStrip(_)
LStrip(s) ==
    IF Len(s) > 0 /\ Head(s) \in Whitespace THEN LStrip(Tail(s)) ELSE s

RECURSIVE RStrip(_)
RStrip(s) ==
    IF Len(s) > 0 /\ s[Len(s)] \in Whitespace
    THEN RStrip(SubSeq(s, 1, Len(s) - 1))
    ELSE s

\* str.strip()
Strip(s) == RStrip(LStrip(s))

RECURSIVE SplitFrom(_, _, _, _)
SplitFrom(s, sep, i, cur) ==
    IF i > Len(s) THEN <<cur>>
    ELSE IF s[i] = sep THEN <<cur>> \o SplitFrom(s, sep, i + 1, <<>>)
    ELSE SplitFrom(s, sep, i + 1, Append(cur, s[i]))

\* str.split(sep): the list of the pieces between the separators
Split(s, sep) == SplitFrom(s, sep, 1, <<>>)

RECURSIVE FirstIndex(_, _, _)
FirstIndex(s, c, i) ==
    IF i > Len(s) THEN 0
    ELSE IF s[i] = c THEN i
    ELSE FirstIndex(s, c, i + 1)

----------------------------------------------------------------------------
(* The inputs of a run *)

PrNumbers == 1..MaxPrNumber

SummaryChars == {"a", "LF", "BSLASH"}
Summaries == UNION {[1..n -> SummaryChars] : n \in 0..MaxSummaryLen}

RepoArgs == {None, Some(<<"acme", "/", "widgets">>)}

GoodUrlA == <<"https", ":", "/", "/", "hooks.slack.com", "/", "A">>
GoodUrlB == <<"https", ":", "/", "/", "hooks.slack.com", "/", "B">>
NoSchemeUrl == <<"hooks.slack.com", "/", "A">>

WebhookArgs == {None, Some(<<>>), Some(GoodUrlA), Some(NoSchemeUrl)}
EnvValues == {None, Some(<<>>), Some(GoodUrlB)}

----------------------------------------------------------------------------
(* The external command: gh pr view <n> --json ... *)

\* the URL scheme://host/owner/repo/pull/N of a pull request
UrlOf(c) ==
    <<c.scheme, ":", "/", "/", c.host, "/", c.owner, "/", c.repo, "/",
      "pull", "/">> \o Str(c.number)

CanonicalParts(n) ==
    [scheme : {"https"}, host : {"github.com"}, owner : {"acme"},
     repo : {"widgets", "gadgets"}, number : {n}]

\* URLs of another shape: a relative one (3 segments), and one whose host
\* serves the repositories under a path prefix (8 segments)
RelativeUrl(n) == <<"widgets", "/", "pull", "/">> \o Str(n)
PrefixedUrl(n) ==
    <<"https", ":", "/", "/", "ghe.example", "/", "git", "/", "acme", "/",
      "widgets", "/", "pull", "/">> \o Str(n)

PrUrls(n) ==
    {UrlOf(c) : c \in CanonicalParts(n)} \cup {RelativeUrl(n), PrefixedUrl(n)}

\* the JSON object with the six requested keys
PrObject(n, url) ==
    [number |-> n, title |-> <<"Fix bug">>, url |-> url,
     headRefName |-> <<"fix-bug">>, baseRefName |-> <<"main">>, body |-> <<>>]

\* what the command can do: exit 0 with the object on stdout, exit 0 with
\* text that is no JSON, or fail (exit status 1, or killed by signal 9)
GhRuns(n) ==
    {[returncode |-> 0, stdout |-> Some(PrObject(n, u)), stderr |-> <<>>] :
        u \in PrUrls(n)}
    \cup {[returncode |-> 0, stdout |-> None, stderr |-> <<>>]}
    \cup {[returncode |-> 1, stdout |-> None,
           stderr |-> <<"no pull requests found", "LF">>],
          [returncode |-> -9, stdout |-> None, stderr |-> <<>>]}

----------------------------------------------------------------------------
(* fetch_pr *)

GhCmd(pr_number, repo) ==
    <<"gh", "pr", "view">> \o Str(pr_number)
        \o <<"--json", "number,title,url,headRefName,baseRefName,body">>
        \o (IF Truthy(repo) THEN <<"--repo">> \o repo[1] ELSE <<>>)

\* variant: only a positive exit status counts as a failure
FetchFailed_Positive(returncode) == returncode > 0

FetchFailed(returncode) == returncode # 0

FetchErrorLine(pr_number, stderr) ==
    <<"Error fetching PR #">> \o Str(pr_number) \o <<": ">> \o Strip(stderr)

\* how fetch_pr ends for a completed run of the command: sys.exit(1) after
\* the error line, json.loads raising, or the parsed object returned
fetch_pr(pr_number, run) ==
    IF FetchFailed(run.returncode)
    THEN [end |-> "exit", value |-> None,
          err |-> <<FetchErrorLine(pr_number, run.stderr)>>]
    ELSE IF IsNone(run.stdout)
    THEN [end |-> "raise", value |-> None, err |-> <<>>]
    ELSE [end |-> "return", value |-> run.stdout, err |-> <<>>]

----------------------------------------------------------------------------
(* format_message *)

RepoIndex == 4

\* variant: the index taken as one-based, which selects the owner
RepoSegment_Owner(segs) == segs[RepoIndex]

\* list[RepoIndex] of a Python list (zero-based)
RepoSegment(segs) == segs[RepoIndex + 1]

format_message(p, summary) ==
    LET segs == Split(p.url, "/") IN
    IF Len(segs) <= RepoIndex
    THEN [end |-> "raise", value |-> None]
    ELSE [end |-> "return",
          value |-> Some(
              <<"U+1F4C2", " *Repo*: ">> \o RepoSegment(segs) \o <<"LF">>
              \o <<"U+2705", " *PR #">> \o Str(p.number)
                  \o <<" Merged* ", "U+2014", " <">> \o p.url \o <<"|">>
                  \o p.title \o <<">", "LF">>
              \o <<"U+1F500", " *Branch*: ", "BQ">> \o p.headRefName
                  \o <<"BQ", " ", "U+2192", " ", "BQ">> \o p.baseRefName
                  \o <<"BQ", "LF">>
              \o <<"U+1F4DD", " *Summary*:", "LF">>
              \o <<">">> \o summary)]

----------------------------------------------------------------------------
(* post_to_slack *)

NonAscii == {"U+1F4C2", "U+2705", "U+2014", "U+1F500", "U+2192", "U+1F4DD",
             "U+274C"}

\* json.dumps of one character of a str (ensure_ascii is the default)
JsonEscape(c) ==
    IF c = "LF" THEN <<"BSLASH", "n">>
    ELSE IF c = "DQ" THEN <<"BSLASH", "DQ">>
    ELSE IF c = "BSLASH" THEN <<"BSLASH", "BSLASH">>
    ELSE IF c \in NonAscii THEN <<"BSLASH", "u", c>>
    ELSE <<c>>

RECURSIVE JsonString(_)
JsonString(s) ==
    IF Len(s) = 0 THEN <<>> ELSE JsonEscape(Head(s)) \o JsonString(Tail(s))

\* json.dumps({"text": message}).encode("utf-8"): the output of json.dumps
\* is ASCII, which UTF-8 encodes byte for byte
Payload(msg) ==
    <<"{", "DQ", "text", "DQ", ": ", "DQ">> \o JsonString(msg) \o <<"DQ", "}">>

\* urllib.request.Request(url): a URL type is one or more characters other
\* than "/" and ":" followed by ":"; without one the constructor raises
HasUrlType(url) ==
    LET colon == FirstIndex(url, ":", 1)
        slash == FirstIndex(url, "/", 1)
    IN  colon > 1 /\ (slash = 0 \/ slash > colon)

Request(url, msg) ==
    [full_url |-> url, data |-> Payload(msg),
     headers |-> <<"Content-Type", "application/json">>, method |-> "POST"]

HTTP_OK == 200

\* what urlopen can do with a request: return the response of a 2xx status,
\* raise HTTPError for any other status, raise URLError when the connection
\* cannot be made, or raise another exception (the peer closing the
\* connection, or a timeout, while the response is read)
Transports ==
    [kind : {"response"}, status : {200, 201, 204}]
    \cup [kind : {"HTTPError"}, status : {301, 404, 500}]
    \cup [kind : {"URLError", "RemoteDisconnected"}, status : {0}]

\* variant: every 2xx status counts as success
IsSuccess_Any2xx(status) == status \in 200..299

IsSuccess(status) == status = HTTP_OK

\* how post_to_slack ends: the request built or not, and then the outcome
\* of the try statement around urlopen
post_to_slack(url, msg, t) ==
    IF ~HasUrlType(url)
    THEN [end |-> "raise", exc |-> "ValueError", ret |-> FALSE,
          called |-> FALSE, err |-> <<>>]
    ELSE IF t.kind = "response"
    THEN IF IsSuccess(t.status)
         THEN [end |-> "return", exc |-> "", ret |-> TRUE, called |-> TRUE,
               err |-> <<>>]
         ELSE [end |-> "return", exc |-> "", ret |-> FALSE, called |-> TRUE,
               err |-> << <<"Slack returned status ">> \o Str(t.status) >>]
    ELSE IF t.kind = "HTTPError"
    THEN [end |-> "return", exc |-> "", ret |-> FALSE, called |-> TRUE,
          err |-> << <<"Slack webhook error: ">> \o Str(t.status)
                     \o <<" ", "reason">> >>]
    ELSE IF t.kind = "URLError"
    THEN [end |-> "return", exc |-> "", ret |-> FALSE, called |-> TRUE,
          err |-> << <<"Network error: ", "reason">> >>]
    ELSE [end |-> "raise", exc |-> t.kind, ret |-> FALSE, called |-> TRUE,
          err |-> <<>>]

----------------------------------------------------------------------------
(* main *)

\* an exception nothing catches: the interpreter prints the traceback on
\* the error stream and the process exits with status 1
Traceback(exc) == <<"Traceback (most recent call last)", exc>>

DryRunHeader == <<"=== DRY RUN ", "U+2014", " Message preview ===", "LF">>
DryRunFooter == <<"LF", "=== End preview ===">>
ConfigErrorLine ==
    <<"Error: No webhook URL provided. Use --webhook-url or set SLACK_WEBHOOK_URL env var.">>
PostedLine(n) ==
    <<"U+2705", " Posted PR #">> \o Str(n) \o <<" merge announcement to Slack!">>
FailedLine == <<"U+274C", " Failed to post to Slack.">>
MessageWasLine == <<"LF", "Message was:", "LF">>

\* the state once parse_args has returned
Init ==
    /\ args \in [pr_number : PrNumbers, summary : Summaries, repo : RepoArgs,
                 webhook_url : WebhookArgs, dry_run : BOOLEAN]
    /\ environ \in EnvValues
    /\ pc = "fetch"
    /\ gh = None
    /\ pr = None
    /\ message = None
    /\ webhook_url = None
    /\ transport = None
    /\ post = None
    /\ http = <<>>
    /\ out = <<>>
    /\ err = <<>>
    /\ exitCode = None
    /\ envReads = <<>>
    /\ stages = <<>>

\* pr = fetch_pr(args.pr_number, args.repo)
Fetch ==
    /\ pc = "fetch"
    /\ \E run \in GhRuns(args.pr_number) :
        LET r == fetch_pr(args.pr_number, run) IN
        /\ gh' = Some([cmd |-> GhCmd(args.pr_number, args.repo),
                       returncode |-> run.returncode,
                       stdout |-> run.stdout, stderr |-> run.stderr])
        /\ stages' = Append(stages, "fetch")
        /\ IF r.end = "return"
           THEN /\ pr' = r.value
                /\ pc' = "format"
                /\ UNCHANGED <<err, exitCode>>
           ELSE /\ pr' = pr
                /\ pc' = "done"
                /\ exitCode' = Some(1)
                /\ err' = IF r.end = "exit" THEN err \o r.err
                          ELSE Append(err, Traceback("JSONDecodeError"))
    /\ UNCHANGED <<args, environ, message, webhook_url, transport, post, http,
                   out, envReads>>

\* message = format_message(pr, args.summary)
Format ==
    /\ pc = "format"
    /\ LET r == format_message(pr[1], args.summary) IN
        /\ stages' = Append(stages, "format")
        /\ IF r.end = "return"
           THEN /\ message' = r.value
                /\ pc' = "fork"
                /\ UNCHANGED <<err, exitCode>>
           ELSE /\ message' = message
                /\ pc' = "done"
                /\ exitCode' = Some(1)
                /\ err' = Append(err, Traceback("IndexError"))
    /\ UNCHANGED <<args, environ, gh, pr, webhook_url, transport, post, http,
                   out, envReads>>

\* variant: the preview is printed but main does not return
DryRunFork_NoReturn ==
    /\ pc = "fork"
    /\ out' = IF args.dry_run
              THEN out \o <<DryRunHeader, message[1], DryRunFooter>>
              ELSE out
    /\ pc' = "resolve"
    /\ UNCHANGED <<args, environ, gh, pr, message, webhook_url, transport,
                   post, http, err, exitCode, envReads, stages>>

\* if args.dry_run: print the preview and return
DryRunFork ==
    /\ pc = "fork"
    /\ IF args.dry_run
       THEN /\ out' = out \o <<DryRunHeader, message[1], DryRunFooter>>
            /\ exitCode' = Some(0)
            /\ pc' = "done"
       ELSE /\ pc' = "resolve"
            /\ UNCHANGED <<out, exitCode>>
    /\ UNCHANGED <<args, environ, gh, pr, message, webhook_url, transport,
                   post, http, err, envReads, stages>>

\* variant: the environment variable takes precedence over the argument
WebhookChoice_EnvFirst(arg, env) == IF Truthy(env) THEN env ELSE arg

\* args.webhook_url or os.environ.get("SLACK_WEBHOOK_URL")
WebhookChoice(arg, env) == IF Truthy(arg) THEN arg ELSE env

\* variant: webhook_url is None
MissingUrl_IsNone(url) == IsNone(url)

\* not webhook_url
MissingUrl(url) == ~Truthy(url)

\* resolve the webhook URL, or report that there is none and exit
Resolve ==
    /\ pc = "resolve"
    /\ LET url == WebhookChoice(args.webhook_url, environ) IN
        /\ webhook_url' = url
        /\ envReads' = IF Truthy(args.webhook_url) THEN envReads
                       ELSE Append(envReads, stages)
        /\ IF MissingUrl(url)
           THEN /\ err' = Append(err, ConfigErrorLine)
                /\ exitCode' = Some(1)
                /\ pc' = "done"
           ELSE /\ pc' = "publish"
                /\ UNCHANGED <<err, exitCode>>
    /\ UNCHANGED <<args, environ, gh, pr, message, transport, post, http, out,
                   stages>>

\* variant: the failure branch does not call sys.exit(1)
Report_NoExit(r, msg, n) ==
    IF r.end = "raise"
    THEN [out |-> <<>>, err |-> <<Traceback(r.exc)>>, code |-> 1]
    ELSE IF r.ret
    THEN [out |-> <<PostedLine(n)>>, err |-> r.err, code |-> 0]
    ELSE [out |-> <<MessageWasLine, msg>>, err |-> Append(r.err, FailedLine),
          code |-> 0]

\* variant: the failure branch echoes the JSON-escaped text of the payload
Report_EscapedEcho(r, msg, n) ==
    IF r.end = "raise"
    THEN [out |-> <<>>, err |-> <<Traceback(r.exc)>>, code |-> 1]
    ELSE IF r.ret
    THEN [out |-> <<PostedLine(n)>>, err |-> r.err, code |-> 0]
    ELSE [out |-> <<MessageWasLine, JsonString(msg)>>,
          err |-> Append(r.err, FailedLine), code |-> 1]

\* what main prints, and the status it exits with, after post_to_slack
\* ended as r (r.err is what post_to_slack itself printed)
Report(r, msg, n) ==
    IF r.end = "raise"
    THEN [out |-> <<>>, err |-> <<Traceback(r.exc)>>, code |-> 1]
    ELSE IF r.ret
    THEN [out |-> <<PostedLine(n)>>, err |-> r.err, code |-> 0]
    ELSE [out |-> <<MessageWasLine, msg>>, err |-> Append(r.err, FailedLine),
          code |-> 1]

\* variant: a failed attempt is followed by a second attempt
Publish_Retry ==
    /\ pc = "publish"
    /\ \E t \in Transports :
        LET r == post_to_slack(webhook_url[1], message[1], t)
            rep == Report(r, message[1], pr[1].number)
            req == Request(webhook_url[1], message[1])
        IN
        /\ stages' = Append(stages, "publish")
        /\ post' = Some([end |-> r.end, ret |-> r.ret])
        /\ http' = IF ~r.called THEN http
                   ELSE IF r.end = "return" /\ ~r.ret THEN http \o <<req, req>>
                   ELSE Append(http, req)
        /\ transport' = IF r.called THEN Some(t) ELSE None
        /\ out' = out \o rep.out
        /\ err' = err \o rep.err
        /\ exitCode' = Some(rep.code)
        /\ pc' = "done"
    /\ UNCHANGED <<args, environ, gh, pr, message, webhook_url, envReads>>

\* if post_to_slack(webhook_url, message): ... else: ... sys.exit(1)
Publish ==
    /\ pc = "publish"
    /\ \E t \in Transports :
        LET r == post_to_slack(webhook_url[1], message[1], t)
            rep == Report(r, message[1], pr[1].number)
        IN
        /\ stages' = Append(stages, "publish")
        /\ post' = Some([end |-> r.end, ret |-> r.ret])
        /\ http' = IF r.called
                   THEN Append(http, Request(webhook_url[1], message[1]))
                   ELSE http
        /\ transport' = IF r.called THEN Some(t) ELSE None
        /\ out' = out \o rep.out
        /\ err' = err \o rep.err
        /\ exitCode' = Some(rep.code)
        /\ pc' = "done"
    /\ UNCHANGED <<args, environ, gh, pr, message, webhook_url, envReads>>

Next == Fetch \/ Format \/ DryRunFork \/ Resolve \/ Publish

Spec == Init /\ [][Next]_vars

----------------------------------------------------------------------------
(* Vocabulary of the properties *)

Done == pc = "done"

\* the external command exited with status 0
GhExitedZero == Len(gh) = 1 /\ gh[1].returncode = 0

\* the fetch succeeded: the command exited 0 and fetch_pr returned a record
FetchSucceeded == GhExitedZero /\ Len(pr) = 1

\* the url of the fetched record has at least five "/"-separated segments
UrlHasFiveSegments == Len(pr) = 1 /\ Len(Split(pr[1].url, "/")) >= 5

ExitedWith(code) == Len(exitCode) = 1 /\ exitCode[1] = code
ExitedNonZero == Len(exitCode) = 1 /\ exitCode[1] # 0

Printed(stream, line) == \E i \in 1..Len(stream) : stream[i] = line

PostReturned(b) == Len(post) = 1 /\ post[1].end = "return" /\ post[1].ret = b

RECURSIVE JsonUnescape(_)
JsonUnescape(s) ==
    IF Len(s) = 0 THEN <<>>
    ELSE IF Head(s) # "BSLASH" THEN <<Head(s)>> \o JsonUnescape(Tail(s))
    ELSE IF s[2] = "n" THEN <<"LF">> \o JsonUnescape(SubSeq(s, 3, Len(s)))
    ELSE IF s[2] = "u" THEN <<s[3]>> \o JsonUnescape(SubSeq(s, 4, Len(s)))
    ELSE <<s[2]>> \o JsonUnescape(SubSeq(s, 3, Len(s)))

\* the text a receiver reads in the body {"text": "..."} of a request
TextOfPayload(data) == JsonUnescape(SubSeq(data, 7, Len(data) - 2))

----------------------------------------------------------------------------
(* C1 *)

\* C1 as stated: in a dry run no request is ever made, and once the fetch
\* has succeeded the process exits with status 0, whatever the record is.
C1_DryRunExitsZero ==
    args.dry_run =>
        /\ http = <<>>
        /\ (Done /\ FetchSucceeded) => ExitedWith(0)

\* C1 amended: in a dry run no request is ever made, and once the fetch has
\* returned a record whose url has at least five "/"-separated segments the
\* process exits with status 0, for every summary.
C1_DryRunExitsZeroWhenFormatted ==
    args.dry_run =>
        /\ http = <<>>
        /\ IsNone(transport) /\ IsNone(post)
        /\ (Done /\ FetchSucceeded /\ UrlHasFiveSegments) => ExitedWith(0)

C1_Witness ==
    /\ Done /\ args.dry_run /\ FetchSucceeded /\ UrlHasFiveSegments
    /\ ExitedWith(0)
    /\ out = <<DryRunHeader, message[1], DryRunFooter>>

----------------------------------------------------------------------------
(* C2 *)

\* C2: post_to_slack returns true if and only if the response status is
\* exactly 200; for every other status (201, 204, 301, 404, 500) it returns
\* false.
C2_TrueIffStatus200 ==
    Len(post) = 1 =>
        /\ PostReturned(TRUE) <=>
              /\ Len(transport) = 1
              /\ transport[1].kind = "response"
              /\ transport[1].status = 200
        /\ (/\ Len(transport) = 1
            /\ transport[1].kind \in {"response", "HTTPError"}
            /\ transport[1].status # 200) => PostReturned(FALSE)

C2_Witness ==
    /\ Len(transport) = 1
    /\ transport[1] = [kind |-> "response", status |-> 201]
    /\ PostReturned(FALSE)

----------------------------------------------------------------------------
(* C3 *)

\* C3: no exception escapes post_to_slack: for every webhook URL and every
\* outcome of the transport the call returns a boolean, and it returns
\* false on every error outcome.
C3_NoExceptionEscapes ==
    Len(post) = 1 =>
        /\ post[1].end = "return"
        /\ (IsNone(transport) \/ transport[1].kind # "response")
               => post[1].ret = FALSE

----------------------------------------------------------------------------
(* C4 *)

\* C4: when the external command exits with a non-zero status, the process
\* reports the error on the error stream and exits non-zero; format_message
\* is never evaluated, nothing is printed on standard output and no request
\* is attempted.
C4_FetchFailureIsTerminal ==
    (Len(gh) = 1 /\ gh[1].returncode # 0) =>
        /\ Done /\ ExitedNonZero
        /\ Len(err) = 1
        /\ err[1] = <<"Error fetching PR #", ToString(args.pr_number), ": ">>
                        \o Strip(gh[1].stderr)
        /\ stages = <<"fetch">>
        /\ IsNone(pr) /\ IsNone(message)
        /\ out = <<>>
        /\ http = <<>> /\ IsNone(post)

C4_Witness ==
    /\ Len(gh) = 1 /\ gh[1].returncode = -9
    /\ Done /\ ExitedWith(1)
    /\ err = << <<"Error fetching PR #", ToString(args.pr_number), ": ">> >>

----------------------------------------------------------------------------
(* C5 *)

NoUrlConfigured == ~Truthy(args.webhook_url) /\ ~Truthy(environ)

\* C5 as stated: in a run without dry-run where the fetch succeeded and
\* neither the argument nor the environment variable yields a webhook URL,
\* the process prints the configuration error on the error stream and exits
\* non-zero without attempting a request.
C5_MissingUrlIsConfigError ==
    (~args.dry_run /\ NoUrlConfigured) =>
        /\ http = <<>>
        /\ (Done /\ FetchSucceeded) =>
              (Printed(err, ConfigErrorLine) /\ ExitedNonZero)

\* C5 amended: the same, for a run whose fetch returned a record whose url
\* has at least five "/"-separated segments.
C5_MissingUrlIsConfigErrorWhenFormatted ==
    (~args.dry_run /\ NoUrlConfigured) =>
        /\ http = <<>> /\ IsNone(post)
        /\ (Done /\ FetchSucceeded /\ UrlHasFiveSegments) =>
              /\ err = <<ConfigErrorLine>>
              /\ out = <<>>
              /\ ExitedNonZero

C5_Witness ==
    /\ Done /\ ~args.dry_run /\ FetchSucceeded /\ UrlHasFiveSegments
    /\ args.webhook_url = None /\ environ = Some(<<>>)
    /\ err = <<ConfigErrorLine>>
    /\ ExitedWith(1)

----------------------------------------------------------------------------
(* C6 *)

\* C6: whenever post_to_slack returns false, the process prints the failure
\* notice on the error stream, prints on standard output the full message,
\* identical to the text sent as the payload, and exits non-zero; the
\* success confirmation is not printed.
C6_FailureEchoesMessage ==
    PostReturned(FALSE) =>
        /\ Len(err) >= 1 /\ err[Len(err)] = FailedLine
        /\ Len(http) = 1
        /\ out = <<MessageWasLine, TextOfPayload(http[1].data)>>
        /\ out[2] = message[1]
        /\ ~Printed(out, PostedLine(pr[1].number))
        /\ Done /\ ExitedNonZero

C6_Witness ==
    /\ PostReturned(FALSE)
    /\ transport[1] = [kind |-> "HTTPError", status |-> 500]
    /\ args.summary = <<"BSLASH", "LF">>
    /\ out = <<MessageWasLine, message[1]>>
    /\ ExitedWith(1)

----------------------------------------------------------------------------
(* C7 *)

ConfirmationLine ==
    <<"U+2705", " Posted PR #", ToString(args.pr_number),
      " merge announcement to Slack!">>

----------------------------------------------------------------------------
(* C8 *)

\* the environment variable is read only once fetch and format are over,
\* and never in a dry run
EnvReadAtSendTime ==
    /\ \A i \in 1..Len(envReads) : envReads[i] = <<"fetch", "format">>
    /\ Len(envReads) >= 1 => Len(message) = 1
    /\ args.dry_run => envReads = <<>>

\* C8 as stated: the POST goes to the --webhook-url argument whenever that
\* argument is given, otherwise to the value of SLACK_WEBHOOK_URL read at
\* send time; the variable is not read before fetch and format are over,
\* and never in a dry run.
C8_ArgumentGivenWins ==
    /\ EnvReadAtSendTime
    /\ Len(http) >= 1 =>
          IF Len(args.webhook_url) = 1
          THEN http[1].full_url = args.webhook_url[1] /\ envReads = <<>>
          ELSE /\ Len(environ) = 1 /\ http[1].full_url = environ[1]
               /\ Len(envReads) = 1

\* C8 amended: the POST goes to the --webhook-url argument whenever that
\* argument is given and not empty, otherwise to the value of
\* SLACK_WEBHOOK_URL read at send time; the variable is not read before
\* fetch and format are over, and never in a dry run.
C8_NonEmptyArgumentWins ==
    /\ EnvReadAtSendTime
    /\ Len(http) >= 1 =>
          IF Len(args.webhook_url) = 1 /\ args.webhook_url[1] # <<>>
          THEN http[1].full_url = args.webhook_url[1] /\ envReads = <<>>
          ELSE /\ Len(environ) = 1 /\ http[1].full_url = environ[1]
               /\ Len(envReads) = 1

C8_Witness ==
    /\ Len(http) = 1
    /\ args.webhook_url = None /\ environ = Some(GoodUrlB)
    /\ http[1].full_url = GoodUrlB
    /\ envReads = << <<"fetch", "format">> >>

----------------------------------------------------------------------------
(* C9 *)

\* C9: for every record whose url is scheme://host/owner/repo/pull/N and
\* every summary, format_message returns the five lines of the template in
\* order, with the repo component of the url as the repo name and the
\* summary verbatim at the end.
C9_CanonicalTemplate ==
    \A c \in CanonicalParts(args.pr_number) :
        (Len(pr) = 1 /\ pr[1].url = UrlOf(c) /\ pc \notin {"fetch", "format"}) =>
            /\ Len(message) = 1
            /\ message[1] =
                  <<"U+1F4C2", " *Repo*: ", c.repo, "LF",
                    "U+2705", " *PR #", ToString(pr[1].number), " Merged* ",
                    "U+2014", " <", c.scheme, ":", "/", "/", c.host, "/",
                    c.owner, "/", c.repo, "/", "pull", "/",
                    ToString(c.number), "|">> \o pr[1].title \o <<">", "LF",
                    "U+1F500", " *Branch*: ", "BQ">> \o pr[1].headRefName
                  \o <<"BQ", " ", "U+2192", " ", "BQ">> \o pr[1].baseRefName
                  \o <<"BQ", "LF",
                    "U+1F4DD", " *Summary*:", "LF",
                    ">">> \o args.summary

C9_Witness ==
    /\ Len(pr) = 1 /\ Len(message) = 1
    /\ pr[1].url = UrlOf([scheme |-> "https", host |-> "github.com",
                          owner |-> "acme", repo |-> "gadgets",
                          number |-> args.pr_number])
    /\ args.summary = <<"LF", "a">>
    /\ SubSeq(message[1], 1, 4) = <<"U+1F4C2", " *Repo*: ", "gadgets", "LF">>

----------------------------------------------------------------------------
(* C10 *)

IsPrefix(s, t) == Len(s) <= Len(t) /\ s = SubSeq(t, 1, Len(s))

\* C10: the stages run in the order fetch, format, publish; at most one
\* request is attempted in a run, only after the fetch has succeeded and
\* the message has been formatted, only without dry-run and with a webhook
\* URL resolved, and it is not repeated after a failure.
C10_OneAttemptInOrder ==
    /\ IsPrefix(stages, <<"fetch", "format", "publish">>)
    /\ Len(http) <= 1
    /\ Len(http) = 1 =>
          /\ FetchSucceeded
          /\ Len(message) = 1
          /\ ~args.dry_run
          /\ Truthy(webhook_url)
          /\ stages = <<"fetch", "format", "publish">>
    /\ (Len(post) = 1 \/ Len(webhook_url) = 1) => Len(message) = 1
    /\ Len(message) = 1 => FetchSucceeded

C10_Witness ==
    /\ Done /\ PostReturned(FALSE) /\ Len(http) = 1
    /\ transport[1].kind = "URLError"
    /\ stages = <<"fetch", "format", "publish">>

====
